---- MODULE Spec2Model ----
(***************************************************************************)
(* A model of package filetree (internal/filetree/filetree.go): a Tree     *)
(* maps cleaned path names to Entry values and keeps, for every directory, *)
(* a slice of snapshots of its children.                                   *)
(*                                                                         *)
(* Strings are sequences of one-character strings, so that the byte-level  *)
(* slicing the code does (dir[:len(dir)-1], path.Split, path.Clean) is     *)
(* modelled as written.  Slices are modelled with their backing arrays:    *)
(* heap[a] is the array with identity a, and a slice is a window           *)
(* (arr, len, cap) on it, so that two Entry values can share children.     *)
(***************************************************************************)
EXTENDS Integers, Sequences, FiniteSets, TLC

VARIABLES index, heap, log, ret, muts, norm, calls

vars == <<index, heap, log, ret, muts, norm, calls>>

---------------------------------------------------------------------------
(* Bounds and inputs *)

\* number of Put calls explored, with any name and any value
MaxPuts == 2

\* number of Put calls explored when every call so far names one of
\* DeepNames and stores DeepValue: long enough for append to write in place
MaxDeepPuts == 5

\* SpecMut: number of Put calls, and number of writes a caller makes
\* through the entries it was handed
MaxMutPuts == 1

MaxMuts == 1

\* the nil interface value, and the values callers store
NilValue == "nil"

Values == {NilValue, "v1", "v2"}

DeepValue == "v1"

\* what a caller writes into an Entry it was handed
Scribble == "w"

\* path names handed to Put, Get and LongestPrefix: clean names of depth
\* 0..4, names with a multi-character final segment, and unclean spellings
Names ==
    { <<>>,
      <<"/">>,
      <<"/", "a">>,
      <<"a", "/">>,
      <<"/", "a", "b">>,
      <<"/", "a", "/", "b">>,
      <<"/", "a", "/", "/", ".", "/", "b">>,
      <<"/", "a", "/", "c">>,
      <<"/", "a", "/", "b", "/", "c">>,
      <<"/", "a", "/", "b", "/", "c", "/", "d">> }

DeepNames == { <<"/">>, <<"/", "a">>, <<"/", "a", "/", "b">> }

\* longest string handed to normalize on its own, and the bytes it is made of
MaxLen == 5

Alphabet == {"/", ".", "a"}

\* number of times normalize is applied in a row to its own result
MaxApply == 2

RECURSIVE StringsOfLen(_)
StringsOfLen(n) ==
    IF n = 0 THEN { <<>> }
    ELSE { Append(s, c) : s \in StringsOfLen(n - 1), c \in Alphabet }

Strings == UNION { StringsOfLen(n) : n \in 0..MaxLen }

\* number of calls begun, by all goroutines together, when calls are run a
\* memory access at a time; the names and the value they are made with
MaxCalls == 2

StepNames ==
    { <<"/">>,
      <<"/", "a">>,
      <<"/", "a", "/", "b">>,
      <<"/", "a", "/", "b", "/", "c", "d">> }

StepValue == "v1"

---------------------------------------------------------------------------
(* Go values *)

\* the name of the root directory
Root == <<"/">>

\* a nil slice
NilSlice == [arr |-> 0, len |-> 0, cap |-> 0]

\* the zero Entry: what a map read of a missing key yields
ZeroEntry == [FullName |-> <<>>, Children |-> NilSlice, Value |-> NilValue]

\* capacity the runtime gives a full slice that is appended one element
GrowCap(c) == IF c = 0 THEN 1 ELSE 2 * c

\* append(s, e): in place when capacity allows, else into a fresh array
append(h, s, e) ==
    IF s.len < s.cap
    THEN [heap  |-> [h EXCEPT ![s.arr][s.len + 1] = e],
          slice |-> [s EXCEPT !.len = s.len + 1]]
    ELSE LET newcap == GrowCap(s.cap)
             arr == [i \in 1..newcap |->
                        IF i <= s.len THEN h[s.arr][i]
                        ELSE IF i = s.len + 1 THEN e
                        ELSE ZeroEntry]
         IN [heap  |-> Append(h, arr),
             slice |-> [arr |-> Len(h) + 1, len |-> s.len + 1, cap |-> newcap]]

\* m[k] for a Go map: the zero value when k is missing
Lookup(m, k) == IF k \in DOMAIN m THEN m[k] ELSE ZeroEntry

\* m[k] = e
Store(m, k, e) == (k :> e) @@ m

---------------------------------------------------------------------------
(* package path *)

RECURSIVE LastSlash(_, _)
LastSlash(s, i) ==
    IF i = 0 THEN 0
    ELSE IF s[i] = "/" THEN i
    ELSE LastSlash(s, i - 1)

\* first result of path.Split: everything up to and including the final slash
SplitDir(s) == SubSeq(s, 1, LastSlash(s, Len(s)))

\* the ".." case of Clean, rooted or able to backtrack: drop the last element
RECURSIVE Backtrack(_, _, _)
Backtrack(out, w, dotdot) ==
    IF w > dotdot /\ out[w + 1] # "/"
    THEN Backtrack(out, w - 1, dotdot)
    ELSE SubSeq(out, 1, w)

\* end (1-based, exclusive) of the path element that starts at r
RECURSIVE ElemEnd(_, _)
ElemEnd(p, r) ==
    IF r <= Len(p) /\ p[r] # "/" THEN ElemEnd(p, r + 1) ELSE r

\* the main loop of path.Clean; r is the 1-based read position
RECURSIVE CleanLoop(_, _, _, _, _)
CleanLoop(p, rooted, r, out, dotdot) ==
    LET n == Len(p) IN
    IF r > n THEN out
    ELSE IF p[r] = "/"
         THEN CleanLoop(p, rooted, r + 1, out, dotdot)
    ELSE IF p[r] = "." /\ (r = n \/ p[r + 1] = "/")
         THEN CleanLoop(p, rooted, r + 1, out, dotdot)
    ELSE IF p[r] = "." /\ p[r + 1] = "." /\ (r + 1 = n \/ p[r + 2] = "/")
         THEN IF Len(out) > dotdot
              THEN CleanLoop(p, rooted, r + 2,
                             Backtrack(out, Len(out) - 1, dotdot), dotdot)
              ELSE IF ~rooted
              THEN LET o == (IF Len(out) > 0 THEN out \o <<"/">> ELSE out)
                            \o <<".", ".">>
                   IN CleanLoop(p, rooted, r + 2, o, Len(o))
              ELSE CleanLoop(p, rooted, r + 2, out, dotdot)
    ELSE LET o == IF (rooted /\ Len(out) # 1) \/ (~rooted /\ Len(out) # 0)
                  THEN out \o <<"/">> ELSE out
             e == ElemEnd(p, r)
         IN CleanLoop(p, rooted, e, o \o SubSeq(p, r, e - 1), dotdot)

\* path.Clean
Clean(p) ==
    IF p = <<>> THEN <<".">>
    ELSE LET rooted == p[1] = "/"
             out == IF rooted
                    THEN CleanLoop(p, TRUE, 2, <<"/">>, 1)
                    ELSE CleanLoop(p, FALSE, 1, <<>>, 0)
         IN IF out = <<>> THEN <<".">> ELSE out

---------------------------------------------------------------------------
(* package filetree *)

\* bytes one Entry is counted as by Size
sizeOfEntry == 512

\* a permission word written in octal, like 0555
Octal(u, g, o) == 64 * u + 8 * g + o

\* os.ModeDir, the one type bit of os.FileMode the package uses
ModeDir == "ModeDir"

\* Entry.Size
Size(e) == sizeOfEntry * e.Children.len

\* Entry.Mode, were it to tell a directory by its value being nil
ModeByValue(e) ==
    IF e.Value = NilValue
    THEN [type |-> {ModeDir}, perm |-> Octal(5, 5, 5)]
    ELSE [type |-> {}, perm |-> Octal(4, 4, 4)]

\* Entry.Mode: an os.FileMode as its type bits and its permission bits
Mode(e) ==
    IF e.Children.len > 0
    THEN [type |-> {ModeDir}, perm |-> Octal(5, 5, 5)]
    ELSE [type |-> {}, perm |-> Octal(4, 4, 4)]

\* Entry.IsDir: os.FileMode.IsDir of Mode
IsDir(e) == ModeDir \in Mode(e).type

\* New, were it to register the root directory "/" up front
NewWithRoot ==
    Root :> [FullName |-> Root, Children |-> NilSlice, Value |-> NilValue]

\* New: a Tree with an empty index
New == <<>>

\* normalize, were it to root the name and leave it uncleaned
normalizeRaw(filename) == <<"/">> \o filename

normalize(filename) == Clean(<<"/">> \o filename)

\* the ancestor loop of Put, were it to replace a directory's last child
\* when that child has the name of the new one instead of appending
RECURSIVE PutLoopDedup(_, _, _)
PutLoopDedup(t, lastPath, dir) ==
    IF Len(dir) = 0 THEN t
    ELSE LET d == SubSeq(dir, 1, Len(dir) - 1)
             child == Lookup(t.index, lastPath)
             parent == Lookup(t.index, d)
             s == parent.Children
             dup == s.len > 0 /\ t.heap[s.arr][s.len].FullName = child.FullName
             a == IF dup
                  THEN [heap |-> [t.heap EXCEPT ![s.arr][s.len] = child], slice |-> s]
                  ELSE append(t.heap, s, child)
             p2 == [parent EXCEPT !.FullName = d, !.Children = a.slice]
         IN PutLoopDedup([index |-> Store(t.index, d, p2), heap |-> a.heap],
                         d, SplitDir(d))

\* the ancestor loop of Put; dir is the loop variable as the condition sees it
RECURSIVE PutLoop(_, _, _)
PutLoop(t, lastPath, dir) ==
    IF Len(dir) = 0 THEN t
    ELSE LET d == SubSeq(dir, 1, Len(dir) - 1)
             child == Lookup(t.index, lastPath)
             parent == Lookup(t.index, d)
             a == append(t.heap, parent.Children, child)
             p2 == [parent EXCEPT !.FullName = d, !.Children = a.slice]
         IN PutLoop([index |-> Store(t.index, d, p2), heap |-> a.heap],
                    d, SplitDir(d))

\* Put, were it to file the entry under the name as given
PutRaw(t, name, value) ==
    LET e == [FullName |-> name, Children |-> NilSlice, Value |-> value]
    IN PutLoop([index |-> Store(t.index, name, e), heap |-> t.heap],
               name, SplitDir(name))

\* Put, were it to make its entries in an index of their own
PutAfresh(t, name, value) ==
    LET n == normalize(name)
        e == [FullName |-> n, Children |-> NilSlice, Value |-> value]
    IN PutLoop([index |-> Store(New, n, e), heap |-> t.heap],
               n, SplitDir(n))

Put(t, name, value) ==
    LET n == normalize(name)
        e == [FullName |-> n, Children |-> NilSlice, Value |-> value]
    IN PutLoop([index |-> Store(t.index, n, e), heap |-> t.heap],
               n, SplitDir(n))

\* Get, were it to look the name up as given
GetRaw(t, name) == <<Lookup(t.index, name), name \in DOMAIN t.index>>

Get(t, name) ==
    LET n == normalize(name)
    IN <<Lookup(t.index, n), n \in DOMAIN t.index>>

\* the loop of LongestPrefix; dir is the loop variable as the condition sees it
RECURSIVE PrefixLoop(_, _)
PrefixLoop(t, dir) ==
    IF dir = <<>> THEN <<ZeroEntry, FALSE>>
    ELSE LET d == SubSeq(dir, 1, Len(dir) - 1)
         IN IF d \in DOMAIN t.index
            THEN <<t.index[d], TRUE>>
            ELSE PrefixLoop(t, SplitDir(d))

LongestPrefix(t, name) == PrefixLoop(t, normalize(name))

---------------------------------------------------------------------------
(* The state machine: one Tree and one caller *)

tree == [index |-> index, heap |-> heap]

\* no call of normalize on its own has been made
NoNorm == [arg |-> <<>>, outs |-> <<>>]

\* the goroutines that may call into one Tree at a time without a lock
Procs == {1, 2}

\* a goroutine that is in no call and has made none: pc is its position,
\* op, name and value the call it is in, lastPath, dir, child and parent the
\* locals of Put (dir also that of LongestPrefix), iters the iterations of
\* the loop begun, entry and ok what the call returned, seq the calls begun
IdleCall ==
    [pc |-> "idle", op |-> "none", name |-> <<>>, value |-> NilValue,
     lastPath |-> <<>>, dir |-> <<>>, child |-> ZeroEntry,
     parent |-> ZeroEntry, iters |-> 0, entry |-> ZeroEntry, ok |-> FALSE,
     seq |-> 0]

NoCalls == [p \in Procs |-> IdleCall]

NoRet == [op |-> "none", name |-> <<>>, entry |-> ZeroEntry, ok |-> FALSE]

Init ==
    /\ index = New
    /\ heap = <<>>
    /\ log = <<>>
    /\ ret = NoRet
    /\ muts = 0
    /\ norm = NoNorm
    /\ calls = NoCalls

\* the calls made so far, and this one, stay within the deep regime
DeepRun(name, value) ==
    /\ name \in DeepNames
    /\ value = DeepValue
    /\ \A i \in 1..Len(log) :
          log[i].name \in DeepNames /\ log[i].value = DeepValue

DoPut ==
    /\ ret = NoRet
    /\ \E name \in Names, value \in Values :
          LET t == Put(tree, name, value)
          IN /\ \/ Len(log) < MaxPuts
                \/ Len(log) < MaxDeepPuts /\ DeepRun(name, value)
             /\ index' = t.index
             /\ heap' = t.heap
             /\ log' = Append(log, [name |-> normalize(name), value |-> value])
    /\ UNCHANGED <<ret, muts, norm, calls>>

DoGet ==
    /\ ret = NoRet
    /\ \E name \in Names :
          LET r == Get(tree, name)
          IN ret' = [op |-> "Get", name |-> normalize(name),
                     entry |-> r[1], ok |-> r[2]]
    /\ UNCHANGED <<index, heap, log, muts, norm, calls>>

DoLongestPrefix ==
    /\ ret = NoRet
    /\ \E name \in Names :
          LET r == LongestPrefix(tree, name)
          IN ret' = [op |-> "LongestPrefix", name |-> normalize(name),
                     entry |-> r[1], ok |-> r[2]]
    /\ UNCHANGED <<index, heap, log, muts, norm, calls>>

\* the caller lets go of the Entry it was handed
Drop ==
    /\ ret # NoRet
    /\ ret' = NoRet
    /\ UNCHANGED <<index, heap, log, muts, norm, calls>>

Next == DoPut \/ DoGet \/ DoLongestPrefix \/ Drop

Spec == Init /\ [][Next]_vars

---------------------------------------------------------------------------
(* A caller that writes into what it was handed *)

\* the same writes, were the caller handed the index's own Entry rather
\* than a copy of it
MutateOwnShared ==
    /\ ret.ok
    /\ muts < MaxMuts
    /\ \/ ret' = [ret EXCEPT !.entry.Value = Scribble]
       \/ ret' = [ret EXCEPT !.entry.FullName = <<Scribble>>]
    /\ ret' # ret
    /\ index' = [k \in DOMAIN index |->
                   IF index[k] = ret.entry THEN ret'.entry ELSE index[k]]
    /\ muts' = muts + 1
    /\ UNCHANGED <<heap, log, norm, calls>>

\* e.Value = Scribble or e.FullName = "w" on the caller's own Entry value
MutateOwn ==
    /\ ret.ok
    /\ muts < MaxMuts
    /\ \/ ret' = [ret EXCEPT !.entry.Value = Scribble]
       \/ ret' = [ret EXCEPT !.entry.FullName = <<Scribble>>]
    /\ ret' # ret
    /\ muts' = muts + 1
    /\ UNCHANGED <<index, heap, log, norm, calls>>

\* e.Children[i].Value = Scribble: a write through the slice into its array
MutateChild ==
    /\ ret.ok
    /\ muts < MaxMuts
    /\ \E i \in 1..ret.entry.Children.len :
          heap' = [heap EXCEPT ![ret.entry.Children.arr][i].Value = Scribble]
    /\ heap' # heap
    /\ muts' = muts + 1
    /\ UNCHANGED <<index, log, ret, norm, calls>>

\* Put, for as long as the tree is small
DoPutSmall == Len(log) < MaxMutPuts /\ DoPut

NextMut ==
    DoPutSmall \/ DoGet \/ DoLongestPrefix \/ Drop \/ MutateOwn \/ MutateChild

SpecMut == Init /\ [][NextMut]_vars

---------------------------------------------------------------------------
(* Calls run one access to the Tree at a time, by goroutines that take no   *)
(* lock: the steps of a call are its reads and writes of tree.index and of  *)
(* the arrays behind the children, in program order; what a goroutine does  *)
(* on its own locals goes with the access before it.                        *)

Begun == calls[1].seq + calls[2].seq

\* goroutine p may begin a call; the goroutines being alike, the second
\* one begins its first call after the first one has begun its own
Free(p) ==
    /\ calls[p].pc \in {"idle", "done"}
    /\ Begun < MaxCalls
    /\ p = 1 \/ calls[1].seq > 0

\* a call returns: its locals are gone, what it returned is kept
Return(c, entry, ok) ==
    [IdleCall EXCEPT !.pc = "done", !.op = c.op, !.name = c.name,
                     !.value = c.value, !.iters = c.iters, !.seq = c.seq,
                     !.entry = entry, !.ok = ok]

\* the head of Put's loop, were its body to leave dir as path.Split left it
PutHeadNoCut(c, lastPath, dir) ==
    IF Len(dir) > 0
    THEN [c EXCEPT !.pc = "child", !.lastPath = lastPath,
                   !.dir = dir, !.iters = @ + 1]
    ELSE Return(c, ZeroEntry, FALSE)

\* the head of Put's loop, reached with dir as path.Split left it: leave
\* the loop and return, or cut the slash off dir and enter the body
PutHead(c, lastPath, dir) ==
    IF Len(dir) > 0
    THEN [c EXCEPT !.pc = "child", !.lastPath = lastPath,
                   !.dir = SubSeq(dir, 1, Len(dir) - 1), !.iters = @ + 1]
    ELSE Return(c, ZeroEntry, FALSE)

\* name = normalize(name); tree.index[name] = Entry{...}; lastPath := name
PutStore(p) ==
    /\ Free(p)
    /\ \E name \in StepNames :
          LET n == normalize(name)
              e == [FullName |-> n, Children |-> NilSlice, Value |-> StepValue]
              c == [IdleCall EXCEPT !.op = "Put", !.name = n,
                                    !.value = StepValue,
                                    !.seq = calls[p].seq + 1]
          IN /\ index' = Store(index, n, e)
             /\ calls' = [calls EXCEPT ![p] = PutHead(c, n, SplitDir(n))]
    /\ UNCHANGED <<heap, log, ret, muts, norm>>

\* child := tree.index[lastPath]
PutChild(p) ==
    /\ calls[p].pc = "child"
    /\ calls' = [calls EXCEPT ![p].child = Lookup(index, calls[p].lastPath),
                              ![p].pc = "parent"]
    /\ UNCHANGED <<index, heap, log, ret, muts, norm>>

\* parent := tree.index[dir]; parent.FullName = dir
PutParent(p) ==
    /\ calls[p].pc = "parent"
    /\ calls' = [calls EXCEPT
                   ![p].parent = [Lookup(index, calls[p].dir)
                                    EXCEPT !.FullName = calls[p].dir],
                   ![p].pc = "append"]
    /\ UNCHANGED <<index, heap, log, ret, muts, norm>>

\* parent.Children = append(parent.Children, child)
PutAppend(p) ==
    /\ calls[p].pc = "append"
    /\ LET a == append(heap, calls[p].parent.Children, calls[p].child)
       IN /\ heap' = a.heap
          /\ calls' = [calls EXCEPT ![p].parent.Children = a.slice,
                                    ![p].pc = "write"]
    /\ UNCHANGED <<index, log, ret, muts, norm>>

\* the same step, were the write of the parent to the map to be lost
PutWriteLost(p) ==
    /\ calls[p].pc = "write"
    /\ index' = index
    /\ calls' = [calls EXCEPT
                   ![p] = PutHead(@, calls[p].dir, SplitDir(calls[p].dir))]
    /\ UNCHANGED <<heap, log, ret, muts, norm>>

\* tree.index[dir] = parent; lastPath = dir; dir, _ = path.Split(dir)
PutWrite(p) ==
    /\ calls[p].pc = "write"
    /\ index' = Store(index, calls[p].dir, calls[p].parent)
    /\ calls' = [calls EXCEPT
                   ![p] = PutHead(@, calls[p].dir, SplitDir(calls[p].dir))]
    /\ UNCHANGED <<heap, log, ret, muts, norm>>

\* Get: entry, ok := tree.index[normalize(name)]
GetRead(p) ==
    /\ Free(p)
    /\ \E name \in StepNames :
          LET r == Get(tree, name)
              c == [IdleCall EXCEPT !.op = "Get", !.name = normalize(name),
                                    !.seq = calls[p].seq + 1]
          IN calls' = [calls EXCEPT ![p] = Return(c, r[1], r[2])]
    /\ UNCHANGED <<index, heap, log, ret, muts, norm>>

\* the head of LongestPrefix's loop, reached with dir as path.Split left
\* it: return nothing, or cut the last byte off dir and enter the body
PrefixHead(c, dir) ==
    IF dir # <<>>
    THEN [c EXCEPT !.pc = "lookup", !.dir = SubSeq(dir, 1, Len(dir) - 1),
                   !.iters = @ + 1]
    ELSE Return(c, ZeroEntry, FALSE)

\* LongestPrefix up to its first read of the index: dir := normalize(name)
PrefixBegin(p) ==
    /\ Free(p)
    /\ \E name \in StepNames :
          LET c == [IdleCall EXCEPT !.op = "LongestPrefix",
                                    !.name = normalize(name),
                                    !.seq = calls[p].seq + 1]
          IN calls' = [calls EXCEPT ![p] = PrefixHead(c, normalize(name))]
    /\ UNCHANGED <<index, heap, log, ret, muts, norm>>

\* if entry, ok := tree.index[dir]; ok { return }; dir, _ = path.Split(dir)
PrefixLookup(p) ==
    /\ calls[p].pc = "lookup"
    /\ LET c == calls[p] IN
       calls' = [calls EXCEPT ![p] =
                   IF c.dir \in DOMAIN index
                   THEN Return(c, index[c.dir], TRUE)
                   ELSE PrefixHead(c, SplitDir(c.dir))]
    /\ UNCHANGED <<index, heap, log, ret, muts, norm>>

\* positions at which a goroutine is about to write, to access, the map
AtMapWrite(p) == calls[p].pc = "write"

AtMapAccess(p) == calls[p].pc \in {"child", "parent", "write", "lookup"}

\* the runtime finds the map written while another goroutine accesses it
\* and throws ("concurrent map writes"): the program is gone
Fatal ==
    /\ \E p, q \in Procs : p # q /\ AtMapWrite(p) /\ AtMapAccess(q)
    /\ calls' = [p \in Procs |-> [IdleCall EXCEPT !.pc = "fatal"]]
    /\ index' = New
    /\ heap' = <<>>
    /\ UNCHANGED <<log, ret, muts, norm>>

Step(p) ==
    \/ PutStore(p) \/ PutChild(p) \/ PutParent(p) \/ PutAppend(p)
    \/ PutWrite(p)
    \/ GetRead(p)
    \/ PrefixBegin(p) \/ PrefixLookup(p)

NextSteps == (\E p \in Procs : Step(p)) \/ Fatal

SpecSteps == Init /\ [][NextSteps]_vars

\* one goroutine on its own, as Put asks for: it runs for as long as it
\* has a step to take
NextSeq == Step(1)

SpecSeqFair == Init /\ [][NextSeq]_vars /\ WF_vars(NextSeq)

---------------------------------------------------------------------------
(* normalize on its own, applied to any string and then to its own result *)

InitNorm ==
    /\ index = New
    /\ heap = <<>>
    /\ log = <<>>
    /\ ret = NoRet
    /\ muts = 0
    /\ calls = NoCalls
    /\ \E s \in Strings : norm = [arg |-> s, outs |-> <<>>]

\* normalize(arg) first, then normalize of the result before
DoNormalize ==
    /\ Len(norm.outs) < MaxApply
    /\ LET s == IF norm.outs = <<>> THEN norm.arg
                 ELSE norm.outs[Len(norm.outs)]
       IN norm' = [norm EXCEPT !.outs = Append(@, normalize(s))]
    /\ UNCHANGED <<index, heap, log, ret, muts, calls>>

NextNorm == DoNormalize

SpecNorm == InitNorm /\ [][NextNorm]_vars

---------------------------------------------------------------------------
(* What the claims speak of *)

\* an Entry with its children read out of their arrays, recursively
RECURSIVE View(_, _)
View(h, e) ==
    [FullName |-> e.FullName,
     Value    |-> e.Value,
     Children |-> [i \in 1..e.Children.len |-> View(h, h[e.Children.arr][i])]]

\* the result of a lookup, with the entry read out
Seen(t, r) == <<View(t.heap, r[1]), r[2]>>

\* an entry without children
Leaf(n, v) == [FullName |-> n, Value |-> v, Children |-> <<>>]

\* d is a proper prefix of n that ends just before a slash of n
AtBoundary(d, n) ==
    /\ Len(d) < Len(n)
    /\ SubSeq(n, 1, Len(d)) = d
    /\ n[Len(d) + 1] = "/"

\* d names a directory strictly above n: the root, spelled "/" or "" as
\* the index spells it, or a proper prefix that ends at a segment boundary
StrictAncestor(d, n) == d # n /\ (d = Root \/ AtBoundary(d, n))

\* the number of segments of d
Depth(d) == IF d = Root THEN 0 ELSE Cardinality({ i \in 1..Len(d) : d[i] = "/" })

\* the ancestor directories of the clean name n, the root "/" included
AncestorDirs(n) ==
    { d \in { SubSeq(n, 1, k) : k \in 1..Len(n) } : StrictAncestor(d, n) }

\* q lies strictly beneath the clean name n
Beneath(q, n) == StrictAncestor(n, q)

\* s is a clean absolute path
IsNormalized(s) ==
    /\ s # <<>>
    /\ s[1] = "/"
    /\ s # Root =>
          \A i \in 1..Len(s) :
             s[i] = "/" =>
                SubSeq(s, i + 1, ElemEnd(s, i + 1) - 1)
                   \notin { <<>>, <<".">>, <<".", ".">> }

RECURSIVE AllNormalized(_)
AllNormalized(v) ==
    /\ IsNormalized(v.FullName)
    /\ \A i \in 1..Len(v.Children) : AllNormalized(v.Children[i])

\* no call is in progress and the caller holds no result: the states in
\* which the index is examined
Idle == ret = NoRet

LastPut == log[Len(log)]

PutNames == { log[i].name : i \in 1..Len(log) }

\* the Put calls made after the last one that named d
Since(d) ==
    LET named == { i \in 1..Len(log) : log[i].name = d }
        from == IF named = {} THEN 0
                ELSE CHOOSE i \in named : \A j \in named : j <= i
    IN SubSeq(log, from + 1, Len(log))

\* the key under which the loop of Put files the entry for the clean name p
ParentKey(p) == SubSeq(SplitDir(p), 1, Len(SplitDir(p)) - 1)

\* the children of the entry stored at key d, read out
Kids(d) == View(heap, index[d]).Children

---------------------------------------------------------------------------
(* The claims *)

\* C1: read-after-write. Right after Put(p, v), Get(p) finds an entry with
\* value v and fullName normalize(p), for every spelling p of the name put.
C1_ReadAfterWrite ==
    (Idle /\ log # <<>>) =>
       \A p \in Names :
          normalize(p) = LastPut.name =>
             LET r == Get(tree, p)
             IN /\ r[2]
                /\ r[1].Value = LastPut.value
                /\ r[1].FullName = normalize(p)

\* C1, witness: a Put has overwritten an earlier value of the same path
C1_Witness ==
    /\ Len(log) >= 2
    /\ log[Len(log) - 1].name = LastPut.name
    /\ log[Len(log) - 1].value = "v1"
    /\ LastPut.value = "v2"
    /\ Get(tree, LastPut.name)[1].Value = "v2"

\* C2: what LongestPrefix(name) returns is an entry whose path is a strict
\* ancestor directory of normalize(name): a proper prefix that ends at a
\* segment boundary, never the name itself and never a non-ancestor.
C2_PrefixIsStrictAncestor ==
    (ret.op = "LongestPrefix" /\ ret.ok) =>
       StrictAncestor(ret.entry.FullName, ret.name)

\* C3: when some strict ancestor directory of normalize(name) is in the
\* index, LongestPrefix(name) finds the entry at the longest of them.
C3_DeepestAncestor ==
    ret.op = "LongestPrefix" =>
       LET anc == { d \in DOMAIN index : StrictAncestor(d, ret.name) }
       IN anc # {} =>
             /\ ret.ok
             /\ ret.entry.FullName \in anc
             /\ \A d \in anc : Depth(d) <= Depth(ret.entry.FullName)
             /\ ret.entry = index[ret.entry.FullName]

\* C4: after Put(p, v), Get finds every ancestor directory of normalize(p),
\* the root "/" included, and its value is nil unless a Put named it.
C4_AncestorsGettable ==
    log # <<>> =>
       \A d \in AncestorDirs(LastPut.name) :
          LET r == Get(tree, d)
          IN /\ r[2]
             /\ d \notin PutNames => r[1].Value = NilValue

\* C5: Get(p) reports not-found when no Put named normalize(p) or a path
\* beneath it; on a new index Get and LongestPrefix find nothing at all.
C5_NotFound ==
    /\ Idle =>
          \A p \in Names :
             (\A q \in PutNames : q # normalize(p) /\ ~Beneath(q, normalize(p)))
                => ~Get(tree, p)[2]
    /\ (ret.op = "Get" /\ \A q \in PutNames : q # ret.name /\ ~Beneath(q, ret.name))
          => ~ret.ok
    /\ index = New =>
          /\ \A p \in Names : ~Get(tree, p)[2] /\ ~LongestPrefix(tree, p)[2]
          /\ ~ret.ok

\* C5, witness: after some Put, a Get of a path that no Put named or went
\* beneath has reported not-found
C5_Witness ==
    /\ log # <<>>
    /\ ret.op = "Get"
    /\ ~ret.ok
    /\ \A q \in PutNames : q # ret.name /\ ~Beneath(q, ret.name)

\* C6: LongestPrefix(name) reports not-found exactly when Get finds no
\* ancestor directory of normalize(name), the root "/" included; and Get on
\* the fullName of the entry it returns finds that same entry.
C6_PrefixAgreesWithGet ==
    ret.op = "LongestPrefix" =>
       /\ ~ret.ok <=> \A d \in AncestorDirs(ret.name) : ~Get(tree, d)[2]
       /\ ret.ok => Get(tree, ret.entry.FullName) = <<ret.entry, TRUE>>

Lookups(t) ==
    [p \in Names |-> <<Seen(t, Get(t, p)), Seen(t, LongestPrefix(t, p))>>]

\* the lookup that handed the caller its entry, made again
Again(t) ==
    IF ret.op = "Get" THEN Get(t, ret.name) ELSE LongestPrefix(t, ret.name)

C9_FullNamesNormalized ==
    \A k \in DOMAIN index : AllNormalized(View(heap, index[k]))

\* the pairs of different inputs that normalize alike
Respellings ==
    LET Both(a, b) == { <<a, b>>, <<b, a>> }
    IN Both(<<>>, <<"/">>)
       \cup Both(<<"/", "a">>, <<"a", "/">>)
       \cup Both(<<"/", "a", "/", "b">>, <<"/", "a", "/", "/", ".", "/", "b">>)

\* C10: names that normalize alike are one key. The spellings the claim
\* lists all normalize to /a/b; and for p1, p2 with normalize(p1) =
\* normalize(p2), Get and LongestPrefix return the same for both, Put of
\* either yields the same index, Get(p2) after Put(p1, v) returns v, and a
\* Put(p2, w) after that adds no key and is what Get(p1) then returns.
C10_KeyIsNormalizedName ==
    /\ \A s \in { <<"a", "/", "b">>,
                  <<"/", "a", "/", "b", "/">>,
                  <<"/", "a", "/", "/", ".", "/", "b">>,
                  <<"/", "a", "/", "x", "/", ".", ".", "/", "b">> } :
          normalize(s) = <<"/", "a", "/", "b">>
    /\ index = New =>
          Respellings = { pair \in Names \X Names :
                             /\ pair[1] # pair[2]
                             /\ normalize(pair[1]) = normalize(pair[2]) }
    /\ \A pair \in IF Idle THEN Respellings ELSE {} :
          LET p1 == pair[1]
              p2 == pair[2]
          IN /\ Get(tree, p1) = Get(tree, p2)
             /\ LongestPrefix(tree, p1) = LongestPrefix(tree, p2)
             /\ \A v \in IF Len(log) < MaxPuts THEN Values ELSE {} :
                   LET t == Put(tree, p1, v)
                       u == Put(t, p2, NilValue)
                   IN /\ t = Put(tree, p2, v)
                      /\ Get(t, p2)[2]
                      /\ Get(t, p2)[1].Value = v
                      /\ DOMAIN u.index = DOMAIN t.index
                      /\ Get(u, p1)[1].Value = NilValue

\* C10, witness: a Get has returned the value that the last Put stored,
\* and the name has two different spellings among the inputs
C10_Witness ==
    /\ log # <<>>
    /\ ret.op = "Get"
    /\ ret.ok
    /\ ret.name = LastPut.name
    /\ ret.entry.Value = "v2"
    /\ LastPut.value = "v2"
    /\ \E pair \in Respellings : normalize(pair[1]) = ret.name

---------------------------------------------------------------------------
\* C11: normalize is total and idempotent: for every string p, the empty
\* string, relative names and names with repeated slashes, "." and ".."
\* among them, normalize(p) is a string (a rooted one) and
\* normalize(normalize(p)) = normalize(p)
C11_NormalizeIdempotent ==
    \A i \in 1..Len(norm.outs) :
       /\ norm.outs[i] \in Seq(Alphabet)
       /\ norm.outs[i] # <<>> /\ norm.outs[i][1] = "/"
       /\ norm.outs[i] = norm.outs[1]

\* normalize was applied twice in a row to a relative name with a repeated
\* slash and a ".." segment, and it changed the name the first time
C11_Witness ==
    /\ Len(norm.outs) = 2
    /\ norm.arg = <<"a", "/", "/", ".", ".">>
    /\ norm.outs[1] = Root
    /\ norm.outs[2] = Root

---------------------------------------------------------------------------
\* the Entry values reachable from e: e itself and, recursively, the
\* elements of its children
RECURSIVE Reachable(_, _)
Reachable(h, e) ==
    {e} \cup UNION { Reachable(h, h[e.Children.arr][i]) : i \in 1..e.Children.len }

Entries == UNION { Reachable(heap, index[k]) : k \in DOMAIN index }

\* C12: for every Entry reachable from the index after any sequence of
\* Puts, IsDir is true exactly when its children are not empty, Size is
\* 512 times the number of its children, and Mode is directory with 0555
\* when it has children and plain 0444 when it has none
C12_Metadata ==
    Idle =>
      \A e \in Entries :
         /\ IsDir(e) <=> e.Children.len > 0
         /\ Size(e) = 512 * e.Children.len
         /\ Mode(e) = IF e.Children.len > 0
                      THEN [type |-> {ModeDir}, perm |-> 365]
                      ELSE [type |-> {}, perm |-> 292]

\* the index holds a directory of two children (1024 bytes), whose children
\* are a plain file with a value and a directory with a value of its own
C12_Witness ==
    /\ Idle
    /\ \E d \in DOMAIN index :
          /\ Size(index[d]) = 1024 /\ IsDir(index[d])
          /\ \E e \in Entries : ~IsDir(e) /\ e.Value = NilValue /\ Size(e) = 0
          /\ \E e \in Entries : IsDir(e) /\ e.Value # NilValue

---------------------------------------------------------------------------
\* a call that has begun and not returned
InFlight(p) == calls[p].pc \notin {"idle", "done", "fatal"}

\* the iterations begun stay within the segments of the name, plus one
WalkBound == \A p \in Procs : calls[p].iters <= Depth(calls[p].name) + 1

\* an iteration begins with dir shorter than the iteration before had it,
\* the first one with dir shorter than the normalized name
WalkShortens ==
    \A p \in Procs :
       calls'[p].iters > 0 /\ calls'[p] # calls[p] /\ calls'[p].pc # "fatal" =>
          IF calls'[p].seq # calls[p].seq
          THEN calls'[p].iters = 1 /\ Len(calls'[p].dir) < Len(calls'[p].name)
          ELSE \/ /\ calls'[p].iters = calls[p].iters
                  /\ calls'[p].dir = calls[p].dir \/ calls'[p].pc = "done"
               \/ /\ calls'[p].iters = calls[p].iters + 1
                  /\ Len(calls'[p].dir) < Len(calls[p].dir)

\* C13: every operation terminates: the ancestor walk of Put and the prefix
\* walk of LongestPrefix shorten the path in every iteration and are over
\* after at most (segments of the normalized name + 1) iterations, whatever
\* the name and the index; a call that has begun comes to its end
C13_Terminates ==
    /\ []WalkBound
    /\ [][WalkShortens]_vars
    /\ \A p \in Procs : InFlight(p) ~> ~InFlight(p)

\* after a Put that ran to its end, a LongestPrefix of the three-segment
\* name /a/b/cd returned the topmost directory after four iterations
C13_Witness ==
    \E p \in Procs :
       /\ calls[p].op = "LongestPrefix" /\ calls[p].pc = "done"
       /\ calls[p].seq = 2 /\ index # New
       /\ calls[p].ok /\ calls[p].entry.FullName = <<>>
       /\ Depth(calls[p].name) = 3 /\ calls[p].iters = 4

---------------------------------------------------------------------------
\* the Put that a step from this state to the next one made, if it made one
PutMade == log' # log

NewPut == log'[Len(log')]

\* C14: Put(p, v) on a path whose entry has children replaces the entry by
\* one with value v and no children, which is no directory any more; every
\* descendant of p in the index is returned by Get as it was before; and in
\* every ancestor of p the children recorded before are as they were, with
\* one child appended after them
C14_OverwriteDirectory ==
    [][ PutMade =>
          LET p == NewPut.name
              old == Get(tree, p)
          IN (old[2] /\ old[1].Children.len > 0) =>
               /\ Seen(tree', Get(tree', p)) = <<Leaf(p, NewPut.value), TRUE>>
               /\ ~IsDir(Get(tree', p)[1])
               /\ \A q \in DOMAIN index :
                     Beneath(q, p) =>
                        Seen(tree', Get(tree', q)) = Seen(tree, Get(tree, q))
               /\ \A d \in DOMAIN index :
                     StrictAncestor(d, p) =>
                        LET was == View(heap, index[d]).Children
                            is == View(heap', index'[d]).Children
                        IN /\ Len(is) = Len(was) + 1
                           /\ SubSeq(is, 1, Len(was)) = was
      ]_vars

---------------------------------------------------------------------------
\* c names an immediate child of directory d: c is d, a slash and one more
\* segment (the root directory taken as d whether it is spelled "/" or "")
ImmediateChild(c, d) ==
    LET k == LastSlash(c, Len(c))
        dir == SubSeq(c, 1, k - 1)
    IN /\ k > 0
       /\ k < Len(c)
       /\ dir = d \/ (dir = <<>> /\ d = Root)

RECURSIVE ChildrenImmediate(_, _)
ChildrenImmediate(d, v) ==
    \A i \in 1..Len(v.Children) :
       /\ ImmediateChild(v.Children[i].FullName, d)
       /\ ChildrenImmediate(v.Children[i].FullName, v.Children[i])

\* C15: in every reachable index, each element of the children of the
\* entry at key d is an immediate child of d (its fullName less its final
\* segment is d), and so it is inside every nested snapshot: no children
\* list holds a grandchild or an unrelated path
C15_ImmediateChildren ==
    Idle => \A d \in DOMAIN index : ChildrenImmediate(d, View(heap, index[d]))

---------------------------------------------------------------------------
\* the path element below directory d on the way to p: p up to the end of
\* the segment that follows d
NextBelow(d, p) ==
    LET slash == IF d = Root THEN 1 ELSE Len(d) + 1
    IN SubSeq(p, 1, ElemEnd(p, slash + 1) - 1)

\* C16: right after Put(p, v), the last element of the children of every
\* ancestor directory d of normalize(p) is equal to the entry stored now for
\* the path element below d on the way to p; for the parent of p that is
\* the entry with fullName normalize(p), value v and no children
C16_SnapshotAsOfCall ==
    (Idle /\ log # <<>>) =>
       LET p == LastPut.name
       IN \A d \in DOMAIN index :
             StrictAncestor(d, p) =>
                LET kids == Kids(d)
                    below == NextBelow(d, p)
                IN /\ kids # <<>>
                   /\ kids[Len(kids)] = View(heap, index[below])
                   /\ below = p => kids[Len(kids)] = Leaf(p, LastPut.value)

---------------------------------------------------------------------------
\* C17: Put(q, v) changes the entry at normalize(q) and the entries at its
\* ancestor keys and nothing else: the entry at every other key is as it
\* was (fullName, value, children), and an ancestor keeps its value and its
\* fullName and has the children it had, followed by one new element
C17_PutFrame ==
    [][ PutMade =>
          LET q == NewPut.name
          IN /\ DOMAIN index \subseteq DOMAIN index'
             /\ \A k \in DOMAIN index' \ {q} :
                   LET is == View(heap', index'[k])
                   IN IF StrictAncestor(k, q)
                      THEN LET was == View(heap, Lookup(index, k))
                           IN /\ k \in DOMAIN index =>
                                   /\ is.Value = was.Value
                                   /\ is.FullName = was.FullName
                              /\ Len(is.Children) = Len(was.Children) + 1
                              /\ SubSeq(is.Children, 1, Len(was.Children))
                                    = was.Children
                      ELSE /\ k \in DOMAIN index
                           /\ index'[k] = index[k]
                           /\ is = View(heap, index[k])
      ]_vars

---------------------------------------------------------------------------
\* the keys the loop of Put writes for the normalized name p, the topmost
\* one being ""
WalkedKeys(p) == { SubSeq(p, 1, k) : k \in { j \in 0..(Len(p) - 1) : p[j + 1] = "/" } }

\* the Put of goroutine p has made its write of key d
Wrote(p, d) == calls[p].pc = "done" \/ Len(calls[p].dir) < Len(d)

\* C18: Put is not atomic. What holds is for Puts that run to their end
\* one after the other: when one goroutine alone has made calls and its
\* Put has returned, every key above the name is in the index and ends in
\* a snapshot equal to the entry below it on the way to the name. (That a
\* reader between the writes of a Put sees the leaf without an ancestor,
\* and that of two interleaved Puts one loses its child, is C18_Witness.)
C18_WholePutsKeepGuarantees ==
    (calls[2].seq = 0 /\ calls[1].pc = "done" /\ calls[1].op = "Put") =>
       LET p == calls[1].name
       IN /\ Seen(tree, Get(tree, p)) = <<Leaf(p, calls[1].value), TRUE>>
          /\ \A d \in WalkedKeys(p) :
                /\ d \in DOMAIN index
                /\ Kids(d) # <<>>
                /\ Kids(d)[Len(Kids(d))] = View(heap, index[NextBelow(d, p)])

\* two goroutines are in Puts of different names that pass through one
\* key d; both have made their write of d and d lists one child, not two;
\* one of the Puts is still in flight, and a Get of its name made now finds
\* the new leaf while a key above it is not in the index
C18_Witness ==
    \E p, q \in Procs :
       /\ p # q
       /\ calls[p].op = "Put" /\ calls[q].op = "Put"
       /\ calls[p].name # calls[q].name
       /\ \E d \in WalkedKeys(calls[p].name) \cap WalkedKeys(calls[q].name) :
             /\ Wrote(p, d) /\ Wrote(q, d)
             /\ d \in DOMAIN index
             /\ index[d].Children.len = 1
       /\ InFlight(q)
       /\ Get(tree, calls[q].name) = <<[FullName |-> calls[q].name,
                                        Children |-> NilSlice,
                                        Value |-> calls[q].value], TRUE>>
       /\ \E a \in WalkedKeys(calls[q].name) : a \notin DOMAIN index

---------------------------------------------------------------------------
\* C19: no entry disappears: a name that Get finds is found by Get after
\* every further call; the value found changes only in a Put of a name
\* that normalizes to the same name; Get and LongestPrefix leave the index
\* as it is
C19_EntriesPersist ==
    [][ IF PutMade
        THEN \A p \in Names :
                LET was == Get(tree, p)
                    is == Get(tree', p)
                IN was[2] =>
                     /\ is[2]
                     /\ is[1].Value # was[1].Value => NewPut.name = normalize(p)
        ELSE index' = index /\ heap' = heap
      ]_vars

\* /a was put with a value, a Put beneath it and a Get of it followed, and
\* the Get found /a with that value
C19_Witness ==
    /\ Len(log) = 2
    /\ log[1] = [name |-> <<"/", "a">>, value |-> "v1"]
    /\ log[2].name = <<"/", "a", "/", "b">>
    /\ ret.op = "Get" /\ ret.name = <<"/", "a">>
    /\ ret.ok /\ ret.entry.Value = "v1"

---------------------------------------------------------------------------
\* the Puts beneath directory d among the Puts of l
PutsBeneath(l, d) ==
    LET IsBeneath(c) == Beneath(c.name, d)
    IN SelectSeq(l, IsBeneath)

\* C20: the children of every key d of the index are as many as the Puts
\* of names strictly beneath d made since the last Put that named d, or
\* since the index was made if no Put named d. So Put("/a/b") and then
\* Put("/a/c") leave two snapshots of /a in the children of the parent
\* of /a
C20_ChildrenCountPuts ==
    Idle =>
      /\ \A d \in DOMAIN index :
            Len(Kids(d)) = Len(PutsBeneath(Since(d), d))
      /\ (Len(log) = 2 /\ log[1].name = <<"/", "a", "/", "b">>
                       /\ log[2].name = <<"/", "a", "/", "c">>) =>
            LET kids == Kids(ParentKey(<<"/", "a">>))
            IN /\ Len(kids) = 2
               /\ kids[1].FullName = <<"/", "a">>
               /\ kids[2].FullName = <<"/", "a">>

====
